---- MODULE Spec2Model ----
(***************************************************************************)
(* Model of scripts/convert_data.py: parse_tdic (the .tdic line scanner),  *)
(* normalize_strokes (the unit-square normaliser) and the loop of main     *)
(* that replaces each record's strokes by their normalisation.             *)
(*                                                                         *)
(* A line of text is a sequence of one-character strings.  The two variant *)
(* markers U+65E7 and U+65B0 are written "Q" and "N".  Python list indices *)
(* are 0-based: the cursor i of the code is kept as is and lines[i] of the *)
(* code is lines[i + 1] here.  The floats of normalize_strokes are exact   *)
(* rationals <<numerator, denominator>> in lowest terms.                   *)
(***************************************************************************)
EXTENDS Integers, Sequences, FiniteSets, TLC

VARIABLES lines, i, pc, char, stroke_count, slot, strokes, characters,
          glyph_at, emitted_at, result, n_in, n_out, n_again

vars == <<lines, i, pc, char, stroke_count, slot, strokes, characters,
          glyph_at, emitted_at, result, n_in, n_out, n_again>>

parser_vars == <<lines, i, pc, char, stroke_count, slot, strokes, characters,
                 glyph_at, emitted_at, result>>

norm_vars == <<n_in, n_out, n_again>>

(***************************************************************************)
(* Bounds of the model.                                                    *)
(***************************************************************************)
MaxLines == 5

MaxLiveLines == 4

MaxStrokes == 2

MaxPoints == 2

MaxCoord == 1

(***************************************************************************)
(* Strings.                                                                *)
(***************************************************************************)
Whitespace == {" "}

OldMarker == "Q"

NewMarker == "N"

DigitValue == [c \in {"0", "1", "2", "3", "4", "5", "6", "7", "8", "9"} |->
                 CASE c = "0" -> 0 [] c = "1" -> 1 [] c = "2" -> 2
                   [] c = "3" -> 3 [] c = "4" -> 4 [] c = "5" -> 5
                   [] c = "6" -> 6 [] c = "7" -> 7 [] c = "8" -> 8
                   [] c = "9" -> 9]

\* text values: the recursive definitions below are functions of them
Text == Seq(STRING)

LStrip[s \in Text] ==
    IF s # <<>> /\ Head(s) \in Whitespace THEN LStrip[Tail(s)] ELSE s

RStrip[s \in Text] ==
    IF s # <<>> /\ s[Len(s)] \in Whitespace
    THEN RStrip[SubSeq(s, 1, Len(s) - 1)]
    ELSE s

\* str.strip()
Strip(s) == RStrip[LStrip[s]]

\* str.startswith(c) for a one-character prefix c
StartsWith(s, c) == Len(s) > 0 /\ s[1] = c

\* c in s
Contains(s, c) == \E k \in 1..Len(s) : s[k] = c

\* str.find(c), 0-based, for a character that occurs in s
Find(s, c) == (CHOOSE k \in 1..Len(s) :
                  s[k] = c /\ \A j \in 1..(k - 1) : s[j] # c) - 1

\* s[k:]
From(s, k) == SubSeq(s, k + 1, Len(s))

\* str.split(sep) for a one-character separator: never an empty list
SplitOn[s \in Text, sep \in STRING] ==
    IF ~Contains(s, sep) THEN <<s>>
    ELSE <<SubSeq(s, 1, Find(s, sep))>> \o SplitOn[From(s, Find(s, sep) + 1), sep]

\* the first whitespace-free run of a string
Token[s \in Text] ==
    IF s = <<>> \/ Head(s) \in Whitespace THEN <<>>
    ELSE <<Head(s)>> \o Token[Tail(s)]

\* the whitespace-free runs of a string that does not start with a space
Runs[t \in Text] ==
    IF t = <<>> THEN <<>>
    ELSE <<Token[t]>> \o Runs[LStrip[From(t, Len(Token[t]))]]

\* str.split() without arguments
SplitWS(s) == Runs[LStrip[s]]

DigitsValue[s \in Text] ==
    IF s = <<>> THEN 0
    ELSE 10 * DigitsValue[SubSeq(s, 1, Len(s) - 1)] + DigitValue[s[Len(s)]]

\* int() of a stripped string: [ok |-> FALSE] stands for ValueError
IntOf[t \in Text] ==
    LET signed == t # <<>> /\ t[1] \in {"+", "-"}
        digits == IF signed THEN Tail(t) ELSE t
    IN  IF digits # <<>> /\ \A k \in 1..Len(digits) : digits[k] \in DOMAIN DigitValue
        THEN [ok |-> TRUE,
              val |-> IF signed /\ t[1] = "-" THEN 0 - DigitsValue[digits]
                      ELSE DigitsValue[digits]]
        ELSE [ok |-> FALSE, val |-> 0]

\* int(s)
ParseInt(s) == IntOf[Strip(s)]

(***************************************************************************)
(* parse_tdic: the coordinate parser of one stroke line.                   *)
(***************************************************************************)
\* x, y = map(int, toks): <<>> stands for the ValueError that the code
\* catches, <<<<x, y>>>> for the appended pair
PairOf[toks \in Seq(Text)] ==
    IF Len(toks) = 2 /\ ParseInt(toks[1]).ok /\ ParseInt(toks[2]).ok
    THEN << <<ParseInt(toks[1]).val, ParseInt(toks[2]).val>> >>
    ELSE <<>>

\* x, y = map(int, coord_str.split())
ParseCoord(coord_str) == PairOf[SplitWS(coord_str)]

\* the body of "for part in parts" for one stripped part
PartCoords[p \in Text] ==
    IF Contains(p, "(") THEN ParseCoord(From(p, Find(p, "(") + 1))
    ELSE <<>>

ParsePart(part) == PartCoords[Strip(part)]

ParseParts[parts \in Seq(Text)] ==
    IF parts = <<>> THEN <<>>
    ELSE ParsePart(Head(parts)) \o ParseParts[Tail(parts)]

\* coords of a stripped stroke line
ParseStrokeLine(stroke_line) == ParseParts[SplitOn[stroke_line, ")"]]

(***************************************************************************)
(* normalize_strokes, over exact rationals.                                *)
(***************************************************************************)
Abs(n) == IF n < 0 THEN 0 - n ELSE n

GCD[a \in Nat, b \in Nat] == IF b = 0 THEN a ELSE GCD[b, a % b]

\* numbers: <<n, d>> is n / d
Num == Int \X Int

\* the rational n / d (d # 0) in lowest terms with a positive denominator
Rat[n \in Int, d \in Int] ==
    IF d < 0 THEN <<(0 - n) \div GCD[Abs(n), Abs(d)], (0 - d) \div GCD[Abs(n), Abs(d)]>>
    ELSE <<n \div GCD[Abs(n), Abs(d)], d \div GCD[Abs(n), Abs(d)]>>

FromInt(n) == <<n, 1>>

RSub(a, b) == Rat[a[1] * b[2] - b[1] * a[2], a[2] * b[2]]

RDiv(a, b) == Rat[a[1] * b[2], a[2] * b[1]]

RLeq(a, b) == a[1] * b[2] <= b[1] * a[2]

\* min() and max() of a non-empty sequence of numbers
RMin(xs) == xs[CHOOSE k \in DOMAIN xs : \A j \in DOMAIN xs : RLeq(xs[k], xs[j])]

RMax(xs) == xs[CHOOSE k \in DOMAIN xs : \A j \in DOMAIN xs : RLeq(xs[j], xs[k])]

StrokeSeqs == Seq(Seq(Num \X Num))

\* [p for s in strokes for p in s]
AllPoints[ss \in StrokeSeqs] ==
    IF ss = <<>> THEN <<>> ELSE Head(ss) \o AllPoints[Tail(ss)]

\* a scale that looks at the width only
ScaleWidthOnly(width, height) ==
    IF width = FromInt(0) THEN FromInt(1) ELSE width

\* a scale that avoids the division by zero by adding 1
ScalePlusOne(width, height) ==
    Rat[RMax(<<width, height>>)[1] + RMax(<<width, height>>)[2],
        RMax(<<width, height>>)[2]]

\* scale = max(width, height), replaced by 1 when it is 0
Scale(width, height) ==
    IF RMax(<<width, height>>) = FromInt(0) THEN FromInt(1)
    ELSE RMax(<<width, height>>)

\* a point that is scaled but not translated by the minimum
NormPointNoShift(p, min_x, min_y, scale) ==
    <<RDiv(p[1], scale), RDiv(p[2], scale)>>

\* [norm_x, norm_y] of one point
NormPoint(p, min_x, min_y, scale) ==
    <<RDiv(RSub(p[1], min_x), scale), RDiv(RSub(p[2], min_y), scale)>>

\* lines 113-120: the loop over the strokes and their points
Rescale[ss \in StrokeSeqs, min_x \in Num, min_y \in Num, scale \in Num] ==
    [s \in DOMAIN ss |->
       [k \in DOMAIN ss[s] |-> NormPoint(ss[s][k], min_x, min_y, scale)]]

\* lines 102-111, for the non-empty coordinate lists all_x and all_y
Extent[all_x \in Seq(Num), all_y \in Seq(Num)] ==
    [min_x |-> RMin(all_x),
     min_y |-> RMin(all_y),
     scale |-> Scale(RSub(RMax(all_x), RMin(all_x)),
                     RSub(RMax(all_y), RMin(all_y)))]

Xs(ss) == [k \in DOMAIN AllPoints[ss] |-> AllPoints[ss][k][1]]

Ys(ss) == [k \in DOMAIN AllPoints[ss] |-> AllPoints[ss][k][2]]

normalize_strokes(ss) ==
    IF Xs(ss) = <<>> \/ Ys(ss) = <<>> THEN <<>>
    ELSE Rescale[ss, Extent[Xs(ss), Ys(ss)].min_x,
                     Extent[Xs(ss), Ys(ss)].min_y,
                     Extent[Xs(ss), Ys(ss)].scale]

\* the integer strokes of a parsed record as numbers
IntStrokes(ss) ==
    [s \in DOMAIN ss |->
       [k \in DOMAIN ss[s] |-> <<FromInt(ss[s][k][1]), FromInt(ss[s][k][2])>>]]

(***************************************************************************)
(* The input texts.                                                        *)
(***************************************************************************)
\* the raw lines a text is made of: blank, the two variant markers, a glyph,
\* count lines (one padded, one not an integer), and stroke lines (one with
\* a malformed group)
LinePool ==
    { <<" ">>,
      <<"Q">>,
      <<"N">>,
      <<"a">>,
      <<":", "1">>,
      <<" ", ":", "2", " ">>,
      <<":", "x">>,
      <<"(", "0", " ", "0", ")">>,
      <<"2", " ", "(", "1", " ", "1", ")", " ", "(", "x", " ", "1", ")", " ",
        "(", "3", " ", "2", ")">> }

\* a text is its raw lines, joined by newlines: at least one line
Contents(max) == UNION {[1..n -> LinePool] : n \in 1..max} \cup {<< <<>> >>}

DropBlankHead[ls \in Seq(Text)] ==
    IF ls # <<>> /\ Strip(Head(ls)) = <<>> THEN DropBlankHead[Tail(ls)] ELSE ls

DropBlankTail[ls \in Seq(Text)] ==
    IF ls # <<>> /\ Strip(ls[Len(ls)]) = <<>>
    THEN DropBlankTail[SubSeq(ls, 1, Len(ls) - 1)]
    ELSE ls

\* content.strip().split('\n'): newlines are whitespace, so the blank lines
\* at both ends go, with the outer whitespace of the first and last line
StripSplit(content) ==
    LET ls == DropBlankTail[DropBlankHead[content]]
    IN  IF ls = <<>> THEN << <<>> >>
        ELSE [k \in DOMAIN ls |->
                IF k = 1 /\ k = Len(ls) THEN Strip(ls[k])
                ELSE IF k = 1 THEN LStrip[ls[k]]
                ELSE IF k = Len(ls) THEN RStrip[ls[k]]
                ELSE ls[k]]

(***************************************************************************)
(* parse_tdic: the scan.                                                   *)
(***************************************************************************)
NoResult == "none"

\* lines[k].strip()
Line(k) == Strip(lines[k + 1])

IsVariant(line) == StartsWith(line, OldMarker) \/ StartsWith(line, NewMarker)

\* a top-level line that is taken as a glyph line
IsGlyph(line) == line # <<>> /\ ~IsVariant(line) /\ ~StartsWith(line, ":")

\* the cursor after "while i < len(lines) and lines[i].strip(): i += 1"
RECURSIVE SkipBlock(_)
SkipBlock(k) ==
    IF k < Len(lines) /\ Line(k) # <<>> THEN SkipBlock(k + 1) ELSE k

\* a record is appended whether or not it has strokes
EmitAlways ==
    /\ characters' = Append(characters, [char |-> char, strokes |-> strokes])
    /\ emitted_at' = Append(emitted_at, glyph_at)

\* "if strokes: characters.append(...)" after the stroke loop
Emit ==
    /\ characters' = IF strokes # <<>>
                     THEN Append(characters, [char |-> char, strokes |-> strokes])
                     ELSE characters
    /\ emitted_at' = IF strokes # <<>> THEN Append(emitted_at, glyph_at)
                     ELSE emitted_at

\* lines 20-22, for the texts of at most max raw lines
InitOn(max) ==
    /\ \E content \in Contents(max) : lines = StripSplit(content)
    /\ i = 0
    /\ pc = "scan"
    /\ char = <<>>
    /\ stroke_count = 0
    /\ slot = 0
    /\ strokes = <<>>
    /\ characters = <<>>
    /\ glyph_at = 0
    /\ emitted_at = <<>>
    /\ result = NoResult
    /\ n_in = <<>>
    /\ n_out = <<>>
    /\ n_again = <<>>

Init == InitOn(MaxLines)

LiveInit == InitOn(MaxLiveLines)

\* line 26: a blank line at top level
BlankLine ==
    /\ pc = "scan" /\ i < Len(lines)
    /\ Line(i) = <<>>
    /\ i' = i + 1
    /\ UNCHANGED <<lines, pc, char, stroke_count, slot, strokes, characters,
                   glyph_at, emitted_at, result, norm_vars>>

\* only the marker line is skipped
SkipVariantLineOnly ==
    /\ pc = "scan" /\ i < Len(lines)
    /\ Line(i) # <<>> /\ IsVariant(Line(i))
    /\ i' = i + 1
    /\ UNCHANGED <<lines, pc, char, stroke_count, slot, strokes, characters,
                   glyph_at, emitted_at, result, norm_vars>>

\* line 31: a variant block is skipped up to the next blank line
SkipVariant ==
    /\ pc = "scan" /\ i < Len(lines)
    /\ Line(i) # <<>> /\ IsVariant(Line(i))
    /\ i' = SkipBlock(i + 1)
    /\ UNCHANGED <<lines, pc, char, stroke_count, slot, strokes, characters,
                   glyph_at, emitted_at, result, norm_vars>>

\* line 43: the glyph line is the last line; break leaves the loop
GlyphAtEnd ==
    /\ pc = "scan" /\ i < Len(lines)
    /\ IsGlyph(Line(i))
    /\ i + 1 >= Len(lines)
    /\ char' = Line(i)
    /\ i' = i + 1
    /\ pc' = "returned"
    /\ result' = characters
    /\ UNCHANGED <<lines, stroke_count, slot, strokes, characters, glyph_at,
                   emitted_at, norm_vars>>

\* the abandoned glyph takes the following line with it
GlyphAbandonSkip ==
    /\ pc = "scan" /\ i < Len(lines)
    /\ IsGlyph(Line(i))
    /\ i + 1 < Len(lines)
    /\ ~StartsWith(Line(i + 1), ":")
    /\ char' = Line(i)
    /\ i' = i + 2
    /\ UNCHANGED <<lines, pc, stroke_count, slot, strokes, characters, glyph_at,
                   emitted_at, result, norm_vars>>

\* the cursor is put back on the abandoned glyph line
GlyphAbandonStay ==
    /\ pc = "scan" /\ i < Len(lines)
    /\ IsGlyph(Line(i))
    /\ i + 1 < Len(lines)
    /\ ~StartsWith(Line(i + 1), ":")
    /\ char' = Line(i)
    /\ i' = i
    /\ UNCHANGED <<lines, pc, stroke_count, slot, strokes, characters, glyph_at,
                   emitted_at, result, norm_vars>>

\* line 48: no count line follows; the glyph is abandoned
GlyphAbandon ==
    /\ pc = "scan" /\ i < Len(lines)
    /\ IsGlyph(Line(i))
    /\ i + 1 < Len(lines)
    /\ ~StartsWith(Line(i + 1), ":")
    /\ char' = Line(i)
    /\ i' = i + 1
    /\ UNCHANGED <<lines, pc, stroke_count, slot, strokes, characters, glyph_at,
                   emitted_at, result, norm_vars>>

\* line 51: int() raises ValueError on the count line
GlyphBadCount ==
    /\ pc = "scan" /\ i < Len(lines)
    /\ IsGlyph(Line(i))
    /\ i + 1 < Len(lines)
    /\ StartsWith(Line(i + 1), ":")
    /\ ~ParseInt(Tail(Line(i + 1))).ok
    /\ char' = Line(i)
    /\ i' = i + 1
    /\ pc' = "raised"
    /\ UNCHANGED <<lines, stroke_count, slot, strokes, characters, glyph_at,
                   emitted_at, result, norm_vars>>

\* lines 51-56: the count is read and the stroke loop starts
GlyphCount ==
    /\ pc = "scan" /\ i < Len(lines)
    /\ IsGlyph(Line(i))
    /\ i + 1 < Len(lines)
    /\ StartsWith(Line(i + 1), ":")
    /\ ParseInt(Tail(Line(i + 1))).ok
    /\ char' = Line(i)
    /\ glyph_at' = i
    /\ stroke_count' = ParseInt(Tail(Line(i + 1))).val
    /\ i' = i + 2
    /\ strokes' = <<>>
    /\ slot' = 0
    /\ pc' = "strokes"
    /\ UNCHANGED <<lines, characters, emitted_at, result, norm_vars>>

\* line 57: the input ends inside the stroke loop
StrokeBreak ==
    /\ pc = "strokes" /\ slot < stroke_count
    /\ i >= Len(lines)
    /\ Emit
    /\ pc' = "scan"
    /\ UNCHANGED <<lines, i, char, stroke_count, slot, strokes, glyph_at,
                   result, norm_vars>>

\* a blank candidate line that the cursor moves past
StrokeBlankAdvance ==
    /\ pc = "strokes" /\ slot < stroke_count
    /\ i < Len(lines)
    /\ Line(i) = <<>>
    /\ slot' = slot + 1
    /\ i' = i + 1
    /\ UNCHANGED <<lines, pc, char, stroke_count, strokes, characters,
                   glyph_at, emitted_at, result, norm_vars>>

\* line 61: a blank candidate line; continue, with no increment of i
StrokeBlank ==
    /\ pc = "strokes" /\ slot < stroke_count
    /\ i < Len(lines)
    /\ Line(i) = <<>>
    /\ slot' = slot + 1
    /\ UNCHANGED <<lines, i, pc, char, stroke_count, strokes, characters,
                   glyph_at, emitted_at, result, norm_vars>>

\* the coordinates are appended even when there are none
StrokeLineAppendAlways ==
    /\ pc = "strokes" /\ slot < stroke_count
    /\ i < Len(lines)
    /\ Line(i) # <<>>
    /\ strokes' = Append(strokes, ParseStrokeLine(Line(i)))
    /\ i' = i + 1
    /\ slot' = slot + 1
    /\ UNCHANGED <<lines, pc, char, stroke_count, characters, glyph_at,
                   emitted_at, result, norm_vars>>

\* lines 65-79: a candidate line is parsed
StrokeLine ==
    /\ pc = "strokes" /\ slot < stroke_count
    /\ i < Len(lines)
    /\ Line(i) # <<>>
    /\ LET coords == ParseStrokeLine(Line(i))
       IN  strokes' = IF coords # <<>> THEN Append(strokes, coords) ELSE strokes
    /\ i' = i + 1
    /\ slot' = slot + 1
    /\ UNCHANGED <<lines, pc, char, stroke_count, characters, glyph_at,
                   emitted_at, result, norm_vars>>

\* line 56: the stroke loop has used its stroke_count iterations
StrokeLoopEnd ==
    /\ pc = "strokes" /\ slot >= stroke_count
    /\ Emit
    /\ pc' = "scan"
    /\ UNCHANGED <<lines, i, char, stroke_count, slot, strokes, glyph_at,
                   result, norm_vars>>

\* the count of an orphan ':' line is parsed as well
OrphanMarkerParses ==
    /\ pc = "scan" /\ i < Len(lines)
    /\ Line(i) # <<>> /\ ~IsVariant(Line(i)) /\ StartsWith(Line(i), ":")
    /\ IF ParseInt(Tail(Line(i))).ok
       THEN i' = i + 1 /\ pc' = pc
       ELSE i' = i /\ pc' = "raised"
    /\ UNCHANGED <<lines, char, stroke_count, slot, strokes, characters,
                   glyph_at, emitted_at, result, norm_vars>>

\* line 87: a ':' line where a glyph line was expected
OrphanMarker ==
    /\ pc = "scan" /\ i < Len(lines)
    /\ Line(i) # <<>> /\ ~IsVariant(Line(i)) /\ StartsWith(Line(i), ":")
    /\ i' = i + 1
    /\ UNCHANGED <<lines, pc, char, stroke_count, slot, strokes, characters,
                   glyph_at, emitted_at, result, norm_vars>>

\* line 89: the scan is over
Return ==
    /\ pc = "scan" /\ i >= Len(lines)
    /\ pc' = "returned"
    /\ result' = characters
    /\ UNCHANGED <<lines, i, char, stroke_count, slot, strokes, characters,
                   glyph_at, emitted_at, norm_vars>>

\* main, lines 138-139: every record's strokes are normalised in place
MainNormalize ==
    /\ pc = "returned"
    /\ characters' = [r \in DOMAIN characters |->
                        [char |-> characters[r].char,
                         strokes |-> normalize_strokes(
                                        IntStrokes(characters[r].strokes))]]
    /\ pc' = "normalized"
    /\ UNCHANGED <<lines, i, char, stroke_count, slot, strokes, glyph_at,
                   emitted_at, result, norm_vars>>

Next ==
    \/ BlankLine
    \/ SkipVariant
    \/ GlyphAtEnd
    \/ GlyphAbandon
    \/ GlyphBadCount
    \/ GlyphCount
    \/ StrokeBreak
    \/ StrokeBlank
    \/ StrokeLine
    \/ StrokeLoopEnd
    \/ OrphanMarker
    \/ Return
    \/ MainNormalize

Spec == Init /\ [][Next]_vars

\* the program is sequential: a step that can be taken is taken
LiveSpec == LiveInit /\ [][Next]_vars /\ WF_vars(Next)

(***************************************************************************)
(* normalize_strokes on its own: the input is any list of at most          *)
(* MaxStrokes strokes (empty ones included) holding at most MaxPoints      *)
(* integer points in all, and the result is normalised a second time.      *)
(***************************************************************************)
Coords == (0 - 1)..MaxCoord

Points == Coords \X Coords

PointSeqs == UNION {[1..n -> Points] : n \in 0..MaxPoints}

\* the ways of cutting the point sequence pts into m consecutive strokes
RECURSIVE Splits(_, _)
Splits(pts, m) ==
    IF m = 0 THEN (IF pts = <<>> THEN {<<>>} ELSE {})
    ELSE UNION { { <<SubSeq(pts, 1, c)>> \o rest :
                     rest \in Splits(SubSeq(pts, c + 1, Len(pts)), m - 1) } :
                 c \in 0..Len(pts) }

NormInit ==
    /\ lines = << <<>> >>
    /\ i = 0
    /\ pc = "norm_in"
    /\ char = <<>>
    /\ stroke_count = 0
    /\ slot = 0
    /\ strokes = <<>>
    /\ characters = <<>>
    /\ glyph_at = 0
    /\ emitted_at = <<>>
    /\ result = NoResult
    /\ \E pts \in PointSeqs, m \in 0..MaxStrokes :
          \E ss \in Splits(pts, m) : n_in = IntStrokes(ss)
    /\ n_out = <<>>
    /\ n_again = <<>>

\* normalize_strokes(strokes)
Normalize ==
    /\ pc = "norm_in"
    /\ n_out' = normalize_strokes(n_in)
    /\ pc' = "norm_out"
    /\ UNCHANGED <<lines, i, char, stroke_count, slot, strokes, characters,
                   glyph_at, emitted_at, result, n_in, n_again>>

\* the same algorithm applied to the full-precision result
Renormalize ==
    /\ pc = "norm_out"
    /\ n_again' = normalize_strokes(n_out)
    /\ pc' = "norm_again"
    /\ UNCHANGED <<lines, i, char, stroke_count, slot, strokes, characters,
                   glyph_at, emitted_at, result, n_in, n_out>>

NormNext ==
    \/ Normalize
    \/ Renormalize

NormSpec == NormInit /\ [][NormNext]_vars

(***************************************************************************)
(* Properties of parse_tdic and of main.                                   *)
(***************************************************************************)
\* the strokes of the candidate lines from line k on, for n remaining slots:
\* the non-blank lines up to the first blank one that yield a pair
RECURSIVE CandidateStrokes(_, _)
CandidateStrokes(k, n) ==
    IF n <= 0 \/ k >= Len(lines) \/ Line(k) = <<>> THEN <<>>
    ELSE (IF ParseStrokeLine(Line(k)) # <<>>
          THEN <<ParseStrokeLine(Line(k))>> ELSE <<>>)
         \o CandidateStrokes(k + 1, n - 1)

\* C1: the record of a glyph with count line ':N' has at most N strokes, and
\* they are, in line order, the coordinates of the non-blank inspected
\* candidate lines that yielded at least one pair.
C1_StrokesOfBlock ==
    pc # "normalized" =>
      \A r \in DOMAIN characters :
        LET g == emitted_at[r]
            N == ParseInt(Tail(Line(g + 1))).val
        IN  /\ characters[r].char = Line(g)
            /\ Len(characters[r].strokes) <= N
            /\ characters[r].strokes = CandidateStrokes(g + 2, N)

C1_Witness ==
    /\ pc = "returned"
    /\ \E r \in DOMAIN characters :
         /\ Len(characters[r].strokes) = 2
         /\ characters[r].strokes[1] # characters[r].strokes[2]

\* C2: every record has at least one stroke and every stroke at least one
\* point, while parse_tdic runs, when it has returned and after main has
\* normalised the records.
C2_NoEmptyRecord ==
    \A r \in DOMAIN characters :
      /\ characters[r].strokes # <<>>
      /\ \A s \in DOMAIN characters[r].strokes : characters[r].strokes[s] # <<>>

C2_Witness ==
    /\ pc = "normalized"
    /\ characters # <<>>
    /\ Len(characters[1].strokes[1]) = 2

BlankSlot ==
    pc = "strokes" /\ slot < stroke_count /\ i < Len(lines) /\ Line(i) = <<>>

\* C3 as stated: a blank candidate line takes a slot, adds no stroke, and the
\* cursor moves past it.
C3_Original ==
    [][BlankSlot => i' = i + 1 /\ slot' = slot + 1 /\ strokes' = strokes]_vars

\* C3 amended: a blank candidate line takes a slot and adds no stroke, and
\* the cursor stays on it, so that every remaining slot meets the same blank
\* line; the cursor is never more than slot lines past the count line.
C3_BlankSlot ==
    /\ [][BlankSlot => /\ i' = i /\ slot' = slot + 1 /\ strokes' = strokes
                       /\ pc' = "strokes"
                       /\ (slot' < stroke_count => BlankSlot')]_vars
    /\ [](pc = "strokes" => i <= glyph_at + 2 + slot /\ slot <= stroke_count)

C3_Witness ==
    /\ pc = "strokes" /\ slot = 2
    /\ i = glyph_at + 2
    /\ i < Len(lines) /\ Line(i) = <<>>

BadCountAhead ==
    /\ pc = "scan" /\ i + 1 < Len(lines)
    /\ IsGlyph(Line(i))
    /\ StartsWith(Line(i + 1), ":")
    /\ ~ParseInt(Tail(Line(i + 1))).ok

\* C4: parse_tdic raises exactly when the scan is on a glyph line whose next
\* line is ':' with a non-integer remainder, and then returns nothing.
C4_RaiseIff ==
    [][/\ (pc' = "raised") <=> BadCountAhead
       /\ (pc' = "raised" => result' = NoResult)]_vars

C4_Witness ==
    /\ pc = "raised"
    /\ characters # <<>>
    /\ result = NoResult

GlyphWithoutCount ==
    /\ pc = "scan" /\ i + 1 < Len(lines)
    /\ IsGlyph(Line(i))
    /\ ~StartsWith(Line(i + 1), ":")

\* C5: a glyph line followed by a line that does not start with ':' gives no
\* record, and the scan goes on at top level on that following line.
C5_Abandon ==
    /\ [][GlyphWithoutCount =>
            i' = i + 1 /\ pc' = "scan" /\ characters' = characters]_vars
    /\ [](\A r \in DOMAIN emitted_at : StartsWith(Line(emitted_at[r] + 1), ":"))

C5_Witness ==
    /\ IsGlyph(Line(0))
    /\ \E r \in DOMAIN emitted_at : emitted_at[r] = 1

\* the first blank line after line k, or the end of the input
NextBlankOrEnd(k) ==
    CHOOSE e \in (k + 1)..Len(lines) :
      /\ e = Len(lines) \/ Line(e) = <<>>
      /\ \A j \in (k + 1)..(e - 1) : Line(j) # <<>>

\* C6: at a top-level line that starts with a variant marker, the scan moves
\* to the next blank line (or the end) without a record, and from a blank
\* line to the line after it, still at top level.
C6_VariantBlock ==
    /\ [][pc = "scan" /\ i < Len(lines) /\ IsVariant(Line(i)) =>
            /\ i' = NextBlankOrEnd(i)
            /\ pc' = "scan"
            /\ characters' = characters]_vars
    /\ [][pc = "scan" /\ i < Len(lines) /\ Line(i) = <<>> =>
            i' = i + 1 /\ pc' = "scan" /\ characters' = characters]_vars

C6_Witness ==
    /\ pc = "scan" /\ i = 3 /\ i < Len(lines)
    /\ IsVariant(Line(0))
    /\ StartsWith(Line(1), ":")
    /\ Line(2) = <<>>
    /\ characters = <<>>

\* C10: parse_tdic ends; the cursor never decreases, every pass of the scan
\* loop moves it forward or ends the scan, and it stays within the lines.
C10_Terminates ==
    /\ <>(pc \in {"returned", "raised", "normalized"})
    /\ [][i' >= i]_vars
    /\ [][pc = "scan" => i' > i \/ pc' \in {"returned", "raised"}]_vars
    /\ [](i <= Len(lines))

C10_Witness ==
    /\ pc = "returned" /\ i = Len(lines)
    /\ Len(lines) = 4
    /\ IsGlyph(Line(0)) /\ stroke_count = 2 /\ slot = 2
    /\ Line(2) = <<>>
    /\ characters = <<>>

(***************************************************************************)
(* Properties of normalize_strokes.                                        *)
(***************************************************************************)
SpanX(ss) == RSub(RMax(Xs(ss)), RMin(Xs(ss)))

SpanY(ss) == RSub(RMax(Ys(ss)), RMin(Ys(ss)))

Normalized == pc = "norm_out" /\ AllPoints[n_in] # <<>>

\* C7 as stated: for any non-empty set of points, one axis of the result
\* spans exactly 1.
C7_Original ==
    Normalized => SpanX(n_out) = FromInt(1) \/ SpanY(n_out) = FromInt(1)

\* C7 amended: when the points do not all coincide, the longer side of the
\* bounding box spans exactly 1 in the result; when they all coincide, both
\* axes span 0.
C7_LongerSideSpansUnit ==
    Normalized =>
      LET w == SpanX(n_in)
          h == SpanY(n_in)
      IN  /\ (w # FromInt(0) /\ RLeq(h, w) => SpanX(n_out) = FromInt(1))
          /\ (h # FromInt(0) /\ RLeq(w, h) => SpanY(n_out) = FromInt(1))
          /\ (w = FromInt(0) /\ h = FromInt(0) =>
                SpanX(n_out) = FromInt(0) /\ SpanY(n_out) = FromInt(0))

C7_Witness ==
    /\ Normalized
    /\ SpanX(n_in) = FromInt(1) /\ SpanY(n_in) = FromInt(2)
    /\ SpanX(n_out) = <<1, 2>>

\* C8: every output coordinate is in [0,1], the least x and the least y are
\* 0, every point is (x - min_x, y - min_y) over max(width, height) (over 1
\* when that is 0), and strokes and points keep their number and order.
C8_UnitSquareAnchored ==
    Normalized =>
      LET min_x == RMin(Xs(n_in))[1]
          min_y == RMin(Ys(n_in))[1]
          w == SpanX(n_in)[1]
          h == SpanY(n_in)[1]
          m == IF w >= h THEN w ELSE h
          S == IF m = 0 THEN 1 ELSE m
      IN  /\ RMin(Xs(n_out)) = FromInt(0)
          /\ RMin(Ys(n_out)) = FromInt(0)
          /\ Len(n_out) = Len(n_in)
          /\ \A s \in DOMAIN n_in :
               /\ Len(n_out[s]) = Len(n_in[s])
               /\ \A k \in DOMAIN n_in[s] :
                    LET p == n_in[s][k]
                        q == n_out[s][k]
                    IN  /\ q[1][1] * S = (p[1][1] - min_x) * q[1][2]
                        /\ q[2][1] * S = (p[2][1] - min_y) * q[2][2]
                        /\ q[1][2] > 0 /\ q[2][2] > 0
                        /\ 0 <= q[1][1] /\ q[1][1] <= q[1][2]
                        /\ 0 <= q[2][1] /\ q[2][1] <= q[2][2]

C8_Witness ==
    /\ Normalized
    /\ Len(n_in) = 2
    /\ RMin(Xs(n_in)) = FromInt(0 - 1)
    /\ \E k \in DOMAIN AllPoints[n_out] : AllPoints[n_out][k] = <<<<1, 2>>, <<1, 1>>>>

\* C9: normalising the result of normalize_strokes again gives the same
\* result, also when all points coincide and when there is no point.
C9_Idempotent ==
    pc = "norm_again" => n_again = n_out

C9_Witness ==
    /\ pc = "norm_again"
    /\ n_again = n_out
    /\ \E k \in DOMAIN AllPoints[n_out] : AllPoints[n_out][k][1] = <<1, 2>>

====
